---------------------------- MODULE Spec2Model ----------------------------
(***************************************************************************)
(* A model of ilc, the IRC log converter: the weechat3 text codec          *)
(* (src/src/format/weechat3.rs), the format registry                       *)
(* (src/src/format/mod.rs) and the commands of src/src/main.rs.            *)
(*                                                                         *)
(* Strings are sequences of one-character strings, so that tokenizing,     *)
(* joining and slicing are computed character by character as the code     *)
(* computes them.                                                          *)
(***************************************************************************)
EXTENDS Integers, Sequences, FiniteSets, TLC

VARIABLES
    \* ---- main(): argument handling and start-up (main.rs 143-199)
    args,       \* the decoded command line (Args)
    mpc,        \* position of main(): "input", "output", "decoder", "encoder", "run", "exit"
    opened,     \* number of input files File::open has opened
    created,    \* TRUE once File::create has created/truncated the output file
    exitMsg,    \* "" while running, else the diagnostic main() died with
    \* ---- cmd_sort / cmd_dedup (main.rs 289-320)
    pc,         \* position inside the command's loop
    decoded,    \* history: the results pulled from the decode sequence so far
    kept,       \* history: kept[i] iff decoded[i] was handed to the encoder (dedup)
    backlog,    \* the AgeSet's FIFO (dedup)
    events,     \* the Vec<Event> of cmd_sort
    output,     \* the events handed to encoder.encode, in order
    \* ---- weechat3 codec (weechat3.rs)
    pending,    \* events still to be encoded into the stream
    original,   \* history: the events that were encoded
    input,      \* the bytes of the underlying stream not yet read
    buffer,     \* Iter.buffer: the line read last
    reads,      \* number of read_line calls made by the last next()
    callInput,  \* history: the stream as it was when the last next() began
    lastRead,   \* outcome of the last read_line: "none", "line", "eof", "err"
    yielded,    \* the elements the decode sequence has yielded
    status      \* "running", "ended" (next() returned None), "panicked"

mainVars  == <<args, mpc, opened, created, exitMsg>>
cmdVars   == <<pc, decoded, kept, backlog, events, output>>
codecVars == <<pending, original, input, buffer, reads, callInput, lastRead, yielded, status>>
vars      == <<mainVars, cmdVars, codecVars>>

-----------------------------------------------------------------------------
(* Bounds of the model *)

\* longest decode sequence a dedup run is fed
MaxEvents == 4
\* longest decode sequence a sort run is fed
MaxSort == 4
\* most lines of text in an input stream
MaxLines == 2
\* most input files named on the command line
MaxFiles == 2

-----------------------------------------------------------------------------
(* Strings *)

nl  == "\n"

\* char::is_whitespace, on the characters the model uses
IsWhitespace(c) == c \in {" ", "\t", "\n", "\r"}

RECURSIVE Concat(_)
\* the concatenation of a sequence of strings
Concat(ss) == IF ss = <<>> THEN <<>> ELSE Head(ss) \o Concat(Tail(ss))

StartsWith(s, p) == Len(s) >= Len(p) /\ SubSeq(s, 1, Len(p)) = p

-----------------------------------------------------------------------------
(* Events (the tagged union of section 3; log::Event in weechat3.rs) *)

Msg(from, content, time)    == [ty |-> "Msg", from |-> from, content |-> content, time |-> time]
Action(from, content, time) == [ty |-> "Action", from |-> from, content |-> content, time |-> time]
Notice(nick, content, time) == [ty |-> "Notice", nick |-> nick, content |-> content, time |-> time]
Join(nick, channel, mask, time) ==
    [ty |-> "Join", nick |-> nick, channel |-> channel, mask |-> mask, time |-> time]
Part(nick, channel, mask, reason, time) ==
    [ty |-> "Part", nick |-> nick, channel |-> channel, mask |-> mask,
     reason |-> reason, time |-> time]
Quit(nick, mask, reason, time) ==
    [ty |-> "Quit", nick |-> nick, mask |-> mask, reason |-> reason, time |-> time]
Nick(old, new, time) == [ty |-> "Nick", old |-> old, new |-> new, time |-> time]
Disconnect(time)     == [ty |-> "Disconnect", time |-> time]

\* Result<Event>
Ok(e)    == [ok |-> TRUE, ev |-> e]
Err(why) == [ok |-> FALSE, err |-> why]

\* NoTimeHash: equality in every field except time
NoTimeEq(a, b) == [a EXCEPT !.time = 0] = [b EXCEPT !.time = 0]

-----------------------------------------------------------------------------
(* cmd_dedup: the aging set and the loop of main.rs 300-320 *)

\* the dedup window: `age > 5000`
Window == 5000

\* AgeSet::push: append to the back of the FIFO
AgeSetPush(fifo, e) == Append(fifo, e)

\* AgeSet::contains: some element of the FIFO is time-insensitive-identical to e
AgeSetContains(fifo, e) == \E i \in 1..Len(fifo) : NoTimeEq(fifo[i], e)

\* AgeSet::prune: while the front element satisfies kill, remove it
\* (kill is the closure, as a function on the elements of the FIFO)
AgeSetPrune(fifo, kill) ==
    LET n == CHOOSE k \in 0..Len(fifo) :
                 /\ \A i \in 1..k : kill[fifo[i]]
                 /\ (k < Len(fifo) => ~kill[fifo[k + 1]])
    IN  SubSeq(fifo, n + 1, Len(fifo))

\* a faulty variant: the window's edge is pruned too (>= for >)
KillAtEdge(newest_event, a) == newest_event.time - a.time >= Window

\* a faulty variant: the entry just past the window survives
KillLate(newest_event, a) == newest_event.time - a.time > Window + 1

\* the closure handed to prune: |a| newest_event.time - a.time > 5000
Kill(newest_event, a) == newest_event.time - a.time > Window

alice == <<"a", "l", "i", "c", "e">>
bob   == <<"b", "o", "b">>
hi    == <<"h", "i">>

\* the times the dedup runs draw from: the spec's scenario and the window's edges
DedupTimes == {1577872800, 1577872805, 1577877800, 1577877801, 1577882801}

\* the events a dedup run is fed
DedupEvents == {Msg(f, hi, t) : f \in {alice, bob}, t \in DedupTimes}

DedupInit ==
    /\ pc = "dedup"
    /\ decoded = <<>>
    /\ kept = <<>>
    /\ backlog = <<>>
    /\ events = <<>>
    /\ output = <<>>

\* a faulty variant: the event is pushed whether or not the backlog holds it
DedupOkReinsert(e) ==
    /\ pc = "dedup"
    /\ Len(decoded) < MaxEvents
    /\ LET newest_event == e
           kill    == [a \in {backlog[i] : i \in 1..Len(backlog)} |-> Kill(newest_event, a)]
           pruned  == AgeSetPrune(backlog, kill)
           fresh   == ~AgeSetContains(pruned, e)
       IN  /\ decoded' = Append(decoded, Ok(e))
           /\ kept' = Append(kept, fresh)
           /\ output' = IF fresh THEN Append(output, e) ELSE output
           /\ backlog' = AgeSetPush(pruned, e)
    /\ UNCHANGED <<pc, events, mainVars, codecVars>>

\* one iteration of `for e in decoder.decode(..)` with e = Ok(e)
DedupOk(e) ==
    /\ pc = "dedup"
    /\ Len(decoded) < MaxEvents
    /\ LET newest_event == e
           kill    == [a \in {backlog[i] : i \in 1..Len(backlog)} |-> Kill(newest_event, a)]
           pruned  == AgeSetPrune(backlog, kill)
           fresh   == ~AgeSetContains(pruned, e)
       IN  /\ decoded' = Append(decoded, Ok(e))
           /\ kept' = Append(kept, fresh)
           /\ output' = IF fresh THEN Append(output, e) ELSE output
           /\ backlog' = IF fresh THEN AgeSetPush(pruned, e) ELSE pruned
    /\ UNCHANGED <<pc, events, mainVars, codecVars>>

\* one iteration with e = Err(_): `if let Ok(e) = e` skips it
DedupErr ==
    /\ pc = "dedup"
    /\ Len(decoded) < MaxEvents
    /\ decoded' = Append(decoded, Err("decode"))
    /\ kept' = Append(kept, FALSE)
    /\ UNCHANGED <<pc, backlog, events, output, mainVars, codecVars>>

\* the decode sequence ends: the loop is left
DedupEnd ==
    /\ pc = "dedup"
    /\ pc' = "done"
    /\ UNCHANGED <<decoded, kept, backlog, events, output, mainVars, codecVars>>


-----------------------------------------------------------------------------
(* The parts of the state a specification does not use stay at these values *)

NoArgs == [cmd |-> "none", files |-> 0, out |-> FALSE, inf |-> "none", outf |-> "none",
           infer_date |-> FALSE]

MainOff  == args = NoArgs /\ mpc = "off" /\ opened = 0 /\ created = FALSE /\ exitMsg = ""
CmdOff   == pc = "off" /\ decoded = <<>> /\ kept = <<>> /\ backlog = <<>>
            /\ events = <<>> /\ output = <<>>
CodecOff == pending = <<>> /\ original = <<>> /\ input = <<>> /\ buffer = <<>>
            /\ reads = 0 /\ callInput = <<>> /\ lastRead = "none" /\ yielded = <<>>
            /\ status = "off"

-----------------------------------------------------------------------------
(* Specification of cmd_dedup *)

InitDedup == DedupInit /\ MainOff /\ CodecOff

NextDedup ==
    \/ \E e \in DedupEvents : DedupOk(e)
    \/ DedupErr
    \/ DedupEnd

SpecDedup == InitDedup /\ [][NextDedup]_vars

\* positions of the history that hold an event
OkIdx == {i \in 1..Len(decoded) : decoded[i].ok}

\* the decoded times are non-decreasing (the dedup engine's precondition)
NonDecreasing ==
    \A i, j \in OkIdx : i < j => decoded[i].ev.time <= decoded[j].ev.time

\* the scenario of section 8: three identical messages at t, t and t + 5
Scenario == <<Ok(Msg(alice, hi, 1577872800)), Ok(Msg(alice, hi, 1577872800)),
              Ok(Msg(alice, hi, 1577872805))>>

\* C1, as stated: of any two time-insensitive-identical events within the
\* window of one another, the first is emitted and the second is not.
C1_AsStated ==
    \A i, j \in OkIdx :
        ( /\ i < j
          /\ NoTimeEq(decoded[i].ev, decoded[j].ev)
          /\ decoded[j].ev.time - decoded[i].ev.time <= Window
          /\ decoded[i].ev.time - decoded[j].ev.time <= Window )
        => (kept[i] /\ ~kept[j])

\* C1, amended: when the decoded times are non-decreasing, an event that
\* is time-insensitive-identical to an earlier EMITTED event and at most 5000
\* units later than it is not emitted; the scenario of section 8 emits exactly
\* its first record.
C1_Dedup ==
    /\ NonDecreasing =>
          \A i, j \in OkIdx :
              ( /\ i < j
                /\ kept[i]
                /\ NoTimeEq(decoded[i].ev, decoded[j].ev)
                /\ decoded[j].ev.time - decoded[i].ev.time <= Window )
              => ~kept[j]
    /\ decoded = Scenario => output = <<Scenario[1].ev>>

\* C1's case: the scenario has been run to its end
C1_Witness ==
    /\ decoded = Scenario
    /\ kept = <<TRUE, FALSE, FALSE>>
    /\ pc = "done"

\* C2, as stated: two time-insensitive-identical events separated by more
\* than the window are both emitted.
C2_AsStated ==
    \A i, j \in OkIdx :
        ( /\ i < j
          /\ NoTimeEq(decoded[i].ev, decoded[j].ev)
          /\ decoded[j].ev.time - decoded[i].ev.time > Window )
        => (kept[i] /\ kept[j])

\* C2, amended: when the decoded times are non-decreasing, by the time an
\* event is tested with contains, prune has evicted every
\* time-insensitive-identical event more than 5000 units older than it; so an
\* event all of whose earlier identical events are more than 5000 units older
\* is emitted.
C2_Dedup ==
    NonDecreasing =>
        /\ \A j \in OkIdx :
              (\A i \in OkIdx :
                   (i < j /\ NoTimeEq(decoded[i].ev, decoded[j].ev))
                   => decoded[j].ev.time - decoded[i].ev.time > Window)
              => kept[j]
        /\ (decoded # <<>> /\ decoded[Len(decoded)].ok) =>
              \A k \in 1..Len(backlog) :
                  NoTimeEq(backlog[k], decoded[Len(decoded)].ev)
                  => decoded[Len(decoded)].ev.time - backlog[k].time <= Window

\* C2's case: an emitted event, then an identical one more than 5000 later,
\* emitted too, with the earlier one gone from the backlog
C2_Witness ==
    /\ NonDecreasing
    /\ \E i, j \in OkIdx :
          /\ i < j /\ j = Len(decoded)
          /\ NoTimeEq(decoded[i].ev, decoded[j].ev)
          /\ decoded[j].ev.time - decoded[i].ev.time > Window
          /\ kept[i] /\ kept[j]
          /\ \A k \in 1..Len(backlog) : backlog[k] # decoded[i].ev

\* the event processed last, when there is one
HasNewest == OkIdx # {}
Newest    == decoded[CHOOSE i \in OkIdx : \A j \in OkIdx : j <= i].ev

\* C11: when the decoded times are non-decreasing, after an event e has been
\* processed every event in the backlog is at most 5000 units older than e
\* (e.time - x.time <= 5000), so the backlog spans at most one window.
C11_Window ==
    (NonDecreasing /\ HasNewest) =>
        \A k \in 1..Len(backlog) : Newest.time - backlog[k].time <= Window

\* C11's case: in-order input whose last event made prune evict the front of
\* the backlog and leave a younger entry behind it
C11_Witness ==
    /\ NonDecreasing
    /\ Len(decoded) = 3
    /\ kept = <<TRUE, TRUE, TRUE>>
    /\ Len(backlog) = 2
    /\ backlog[1] = decoded[2].ev
    /\ backlog[1].time < Newest.time
    /\ Newest.time - decoded[1].ev.time > Window

\* the events of the history that were emitted, in order
KeptEvents ==
    LET idx == {i \in 1..Len(decoded) : kept[i]}
    IN  [k \in 1..Cardinality(idx) |->
            decoded[CHOOSE i \in idx : Cardinality({j \in idx : j <= i}) = k].ev]

\* C12: after any sequence of events, in order or not: only decoded events
\* are emitted and the output is the subsequence of the decoded input that
\* was kept; the backlog is the emitted events not yet pruned, in emission
\* order (a suffix of the output, so a dropped duplicate is in neither); and
\* no two events of the backlog are time-insensitive-identical.
C12_Backlog ==
    /\ Len(kept) = Len(decoded)
    /\ \A i \in 1..Len(decoded) : kept[i] => decoded[i].ok
    /\ output = KeptEvents
    /\ Len(backlog) <= Len(output)
    /\ backlog = SubSeq(output, Len(output) - Len(backlog) + 1, Len(output))
    /\ \A i, j \in 1..Len(backlog) : i < j => ~NoTimeEq(backlog[i], backlog[j])

\* C12's case: out-of-order input in which a duplicate was dropped and an
\* emitted event was pruned, so the backlog is a proper, non-empty suffix of
\* the output and the output a proper subsequence of the input
C12_Witness ==
    /\ ~NonDecreasing
    /\ Len(decoded) = 4
    /\ \E i \in OkIdx : ~kept[i]
    /\ Len(output) = 3
    /\ Len(backlog) = 2

-----------------------------------------------------------------------------
(* cmd_sort: main.rs 289-299 *)

carol == <<"c", "a", "r", "o", "l">>

\* the events a sort run is fed: three senders at two times
SortEvents == {Msg(f, hi, t) : f \in {alice, bob, carol}, t \in {1577872800, 1577872805}}

\* where sort_by puts e in an already sorted s: after every element that is
\* not greater (a.time.cmp(&b.time), stable)
InsertAt(s, e) == Cardinality({i \in 1..Len(s) : s[i].time <= e.time})

RECURSIVE SortUnstable(_)
\* a faulty variant: an unstable sort, which puts an element before its equals
SortUnstable(s) ==
    IF s = <<>> THEN <<>>
    ELSE LET e    == s[Len(s)]
             done == SortUnstable(SubSeq(s, 1, Len(s) - 1))
             n    == Cardinality({i \in 1..Len(done) : done[i].time < e.time})
         IN  SubSeq(done, 1, n) \o <<e>> \o SubSeq(done, n + 1, Len(done))

RECURSIVE SortByTime(_)
\* events.sort_by(|a, b| a.time.cmp(&b.time)): a stable sort
SortByTime(s) ==
    IF s = <<>> THEN <<>>
    ELSE LET e    == s[Len(s)]
             done == SortByTime(SubSeq(s, 1, Len(s) - 1))
             n    == InsertAt(done, e)
         IN  SubSeq(done, 1, n) \o <<e>> \o SubSeq(done, n + 1, Len(done))

SortInit ==
    /\ pc = "collect"
    /\ decoded = <<>>
    /\ kept = <<>>
    /\ backlog = <<>>
    /\ events = <<>>
    /\ output = <<>>

\* collect() pulls one Ok(e): flat_map(Result::ok) passes e on
SortCollectOk(e) ==
    /\ pc = "collect"
    /\ Len(decoded) < MaxSort
    /\ decoded' = Append(decoded, Ok(e))
    /\ events' = Append(events, e)
    /\ UNCHANGED <<pc, kept, backlog, output, mainVars, codecVars>>

\* collect() pulls one Err(_): flat_map(Result::ok) drops it
SortCollectErr ==
    /\ pc = "collect"
    /\ Len(decoded) < MaxSort
    /\ decoded' = Append(decoded, Err("decode"))
    /\ UNCHANGED <<pc, kept, backlog, events, output, mainVars, codecVars>>

\* the decode sequence ends and the collected events are sorted
SortBy ==
    /\ pc = "collect"
    /\ events' = SortByTime(events)
    /\ pc' = IF events = <<>> THEN "done" ELSE "emit"
    /\ UNCHANGED <<decoded, kept, backlog, output, mainVars, codecVars>>

\* one iteration of `for e in events`: e is handed to the encoder
SortEmit ==
    /\ pc = "emit"
    /\ output' = Append(output, Head(events))
    /\ events' = Tail(events)
    /\ pc' = IF Tail(events) = <<>> THEN "done" ELSE "emit"
    /\ UNCHANGED <<decoded, kept, backlog, mainVars, codecVars>>

InitSort == SortInit /\ MainOff /\ CodecOff

NextSort ==
    \/ \E e \in SortEvents : SortCollectOk(e)
    \/ SortCollectErr
    \/ SortBy
    \/ SortEmit

SpecSort == InitSort /\ [][NextSort]_vars

\* the successfully decoded events, in input order
OkEvents == [k \in 1..Cardinality(OkIdx) |->
                decoded[CHOOSE i \in OkIdx : Cardinality({j \in OkIdx : j <= i}) = k].ev]

\* the elements of s whose time is t, in the order of s
AtTime(s, t) == LET Same(e) == e.time = t IN SelectSeq(s, Same)

\* C7: when the sort command is done, the emitted times are non-decreasing and,
\* for every time value, the emitted events of that time are exactly the
\* successfully decoded events of that time in their input order (so the
\* output is a permutation of the decoded events, stable on ties).
C7_Sort ==
    pc = "done" =>
        /\ \A i, j \in 1..Len(output) : i < j => output[i].time <= output[j].time
        /\ Len(output) = Len(OkEvents)
        /\ \A t \in {e.time : e \in SortEvents} : AtTime(output, t) = AtTime(OkEvents, t)

\* C7's case: a run that had to move an event over two tied ones, in
\* between an undecodable record
C7_Witness ==
    /\ pc = "done"
    /\ Len(decoded) = 4
    /\ \E i \in 1..4 : ~decoded[i].ok
    /\ Len(output) = 3
    /\ output[1].time < output[2].time
    /\ output[2].time = output[3].time
    /\ output[2] # output[3]
    /\ OkEvents[1].time > OkEvents[3].time

-----------------------------------------------------------------------------
(* weechat3 codec: the helpers of Iter::next and encode *)

Digits == <<"0", "1", "2", "3", "4", "5", "6", "7", "8", "9">>

IsDigit(c) == \E i \in 1..10 : Digits[i] = c

DigitVal(c) == (CHOOSE i \in 1..10 : Digits[i] = c) - 1

\* the value of a string of two, or of four, decimal digits
Num2(s) == 10 * DigitVal(s[1]) + DigitVal(s[2])
Num4(s) == 100 * Num2(SubSeq(s, 1, 2)) + Num2(SubSeq(s, 3, 4))

\* n written with two, or with four, digits
Pad2(n) == <<Digits[((n \div 10) % 10) + 1], Digits[(n % 10) + 1]>>
Pad4(n) == Pad2(n \div 100) \o Pad2(n % 100)

IsLeap(y) == (y % 4 = 0 /\ y % 100 # 0) \/ y % 400 = 0

DaysInMonth(y, m) ==
    IF m = 2 THEN (IF IsLeap(y) THEN 29 ELSE 28)
    ELSE IF m \in {4, 6, 9, 11} THEN 30 ELSE 31

\* days from 1970-01-01 to the proleptic Gregorian date y-m-d
DaysFromCivil(y, m, d) ==
    LET yy  == IF m <= 2 THEN y - 1 ELSE y
        era == yy \div 400
        yoe == yy - era * 400
        mp  == IF m > 2 THEN m - 3 ELSE m + 9
        doy == (153 * mp + 2) \div 5 + d - 1
        doe == yoe * 365 + yoe \div 4 - yoe \div 100 + doy
    IN  era * 146097 + doe - 719468

\* the proleptic Gregorian date that is z days after 1970-01-01
CivilFromDays(z) ==
    LET zz  == z + 719468
        era == zz \div 146097
        doe == zz - era * 146097
        yoe == (doe - doe \div 1460 + doe \div 36524 - doe \div 146096) \div 365
        doy == doe - (365 * yoe + yoe \div 4 - yoe \div 100)
        mp  == (5 * doy + 2) \div 153
        d   == doy - (153 * mp + 2) \div 5 + 1
        m   == IF mp < 10 THEN mp + 3 ELSE mp - 9
    IN  [y |-> yoe + era * 400 + (IF m <= 2 THEN 1 ELSE 0), m |-> m, d |-> d]

\* the tokens `date` and `time` are laid out as YYYY-MM-DD and HH:MM:SS and
\* name a real date and time of day
WellFormedTimestamp(date, time) ==
    /\ Len(date) = 10 /\ Len(time) = 8
    /\ \A i \in {1, 2, 3, 4, 6, 7, 9, 10} : IsDigit(date[i])
    /\ date[5] = "-" /\ date[8] = "-"
    /\ \A i \in {1, 2, 4, 5, 7, 8} : IsDigit(time[i])
    /\ time[3] = ":" /\ time[6] = ":"
    /\ LET y == Num4(SubSeq(date, 1, 4))
           m == Num2(SubSeq(date, 6, 7))
           d == Num2(SubSeq(date, 9, 10))
       IN  m \in 1..12 /\ d \in 1..DaysInMonth(y, m)
    /\ Num2(SubSeq(time, 1, 2)) < 24
    /\ Num2(SubSeq(time, 4, 5)) < 60
    /\ Num2(SubSeq(time, 7, 8)) < 60

\* UTC.datetime_from_str(.., TIME_DATE_FORMAT): the epoch seconds of a
\* well-formed timestamp
ParseTimestamp(date, time) ==
    DaysFromCivil(Num4(SubSeq(date, 1, 4)), Num2(SubSeq(date, 6, 7)),
                  Num2(SubSeq(date, 9, 10))) * 86400
    + Num2(SubSeq(time, 1, 2)) * 3600 + Num2(SubSeq(time, 4, 5)) * 60
    + Num2(SubSeq(time, 7, 8))

\* a faulty variant: a date formatter that writes the month from 0 (an off-by-one)
dateMonthFromZero(t) ==
    LET c   == CivilFromDays(t \div 86400)
        sod == t % 86400
    IN  Pad4(c.y) \o <<"-">> \o Pad2(c.m - 1) \o <<"-">> \o Pad2(c.d) \o <<" ">>
        \o Pad2(sod \div 3600) \o <<":">> \o Pad2((sod % 3600) \div 60) \o <<":">>
        \o Pad2(sod % 60)

\* encode::date: UTC.timestamp(t, 0).format("%Y-%m-%d %H:%M:%S")
date(t) ==
    LET c   == CivilFromDays(t \div 86400)
        sod == t % 86400
    IN  Pad4(c.y) \o <<"-">> \o Pad2(c.m) \o <<"-">> \o Pad2(c.d) \o <<" ">>
        \o Pad2(sod \div 3600) \o <<":">> \o Pad2((sod % 3600) \div 60) \o <<":">>
        \o Pad2(sod % 60)

\* self.buffer.split(|c| c.is_whitespace()): every whitespace character ends
\* a token (so two in a row give an empty token) and is kept in split_tokens
Tokenize(buf) ==
    LET IsSplit(i) == IsWhitespace(buf[i])
        at         == SelectSeq([i \in 1..Len(buf) |-> i], IsSplit)
        n          == Len(at)
    IN  [tokens       |-> [k \in 1..n + 1 |->
                              SubSeq(buf, IF k = 1 THEN 1 ELSE at[k - 1] + 1,
                                          IF k = n + 1 THEN Len(buf) ELSE at[k] - 1)],
         split_tokens |-> [k \in 1..n |-> buf[at[k]]]]

\* s from its i-th element on (the slice s[i-1..] of the code)
From(s, i) == SubSeq(s, i, Len(s))

Min(a, b) == IF a <= b THEN a ELSE b

\* join: each token followed by the whitespace that followed it, for as many
\* pairs as zip gives; then the last character is popped
join(s, splits) ==
    LET out == Concat([i \in 1..Min(Len(s), Len(splits)) |-> s[i] \o <<splits[i]>>])
    IN  IF out = <<>> THEN <<>> ELSE SubSeq(out, 1, Len(out) - 1)

\* mask: strip one leading and one trailing character
mask(s) == IF Len(s) >= 2 THEN SubSeq(s, 2, Len(s) - 1) ELSE <<>>

\* what matching one line gives: an event, nothing (no shape matched), or a panic
Emit(e)     == [kind |-> "event", ev |-> e]
Skip        == [kind |-> "skip"]
Panic(what) == [kind |-> "panic", what |-> what]

\* the shape of weechat3.rs 66-105 that a token list matches first, "" if none
Shape(t) ==
    LET n == Len(t) IN
    IF n >= 8 /\ t[3] = <<"-", "-", ">">> /\ t[6] = <<"h", "a", "s">> /\ t[7] = <<"j", "o", "i", "n", "e", "d">> THEN "Join"
    ELSE IF n >= 8 /\ t[3] = <<"<", "-", "-">> /\ t[6] = <<"h", "a", "s">> /\ t[7] = <<"l", "e", "f", "t">> THEN "Part"
    ELSE IF n >= 7 /\ t[3] = <<"<", "-", "-">> /\ t[6] = <<"h", "a", "s">> /\ t[7] = <<"q", "u", "i", "t">> THEN "Quit"
    ELSE IF n >= 4 /\ t[3] = <<"-", "-">> /\ StartsWith(t[4], <<"N", "o", "t", "i", "c", "e", "(">>) THEN "Notice"
    ELSE IF n >= 7 /\ t[3] = <<"-", "-">> /\ t[4] = <<"i", "r", "c", ":">> /\ t[5] = <<"d", "i", "s", "c", "o", "n", "n", "e", "c", "t", "e", "d">>
                   /\ t[6] = <<"f", "r", "o", "m">> /\ t[7] = <<"s", "e", "r", "v", "e", "r">> THEN "Disconnect"
    ELSE IF n = 9 /\ t[3] = <<"-", "-">> /\ t[6] = <<"n", "o", "w">> /\ t[7] = <<"k", "n", "o", "w", "n">> /\ t[8] = <<"a", "s">>
                  /\ t[5] \in {<<"i", "s">>, <<"a", "r", "e">>} THEN "Nick"
    ELSE IF n >= 5 /\ t[4] = <<"*">> /\ t[3] = <<>> THEN "Action"
    ELSE IF n >= 3 THEN "Msg"
    ELSE ""

\* the body of the loop of Iter::next after read_line: tokenize the buffer,
\* match tokens[..tokens.len() - 1] and build the event; the fields are
\* evaluated in the order they are written, the timestamp's unwrap() last
\* (in Notice, after the slice of the marker)
DecodeLine(buf) ==
    LET tk           == Tokenize(buf)
        t            == SubSeq(tk.tokens, 1, Len(tk.tokens) - 1)
        split_tokens == tk.split_tokens
        shape        == Shape(t)
        wf           == WellFormedTimestamp(t[1], t[2])
        ts           == ParseTimestamp(t[1], t[2])
    IN  IF shape = "" THEN Skip
        ELSE IF shape = "Notice" /\ 7 > Len(t[4]) - 2 THEN Panic("slice")
        ELSE IF ~wf THEN Panic("timestamp")
        ELSE IF shape = "Join" THEN Emit(Join(t[4], t[8], mask(t[5]), ts))
        ELSE IF shape = "Part"
            THEN Emit(Part(t[4], t[8], mask(t[5]),
                           mask(join(From(t, 9), From(split_tokens, 9))), ts))
        ELSE IF shape = "Quit"
            THEN Emit(Quit(t[4], mask(t[5]),
                           mask(join(From(t, 8), From(split_tokens, 8))), ts))
        ELSE IF shape = "Notice"
            THEN Emit(Notice(SubSeq(t[4], 8, Len(t[4]) - 2),
                             join(From(t, 5), From(split_tokens, 5)), ts))
        ELSE IF shape = "Disconnect" THEN Emit(Disconnect(ts))
        ELSE IF shape = "Nick" THEN Emit(Nick(t[4], t[9], ts))
        ELSE IF shape = "Action"
            THEN Emit(Action(t[5], join(From(t, 6), From(split_tokens, 6)), ts))
        ELSE Emit(Msg(t[3], join(From(t, 4), From(split_tokens, 4)), ts))

\* a position of the stream at which the read fails
EIO == "EIO"

\* self.input.read_line(&mut self.buffer): the bytes up to and including the
\* next newline (or up to the end of the stream); Ok(0) at the end of the
\* stream; Err where the stream fails
ReadLine(inp) ==
    IF inp = <<>> THEN [res |-> "eof", line |-> <<>>, rest |-> <<>>]
    ELSE LET stops == {i \in 1..Len(inp) : inp[i] \in {nl, EIO}}
             p     == IF stops = {} THEN Len(inp)
                      ELSE CHOOSE i \in stops : \A j \in stops : i <= j
         IN  IF inp[p] = EIO
             THEN [res |-> "err", line |-> SubSeq(inp, 1, p - 1), rest |-> From(inp, p + 1)]
             ELSE [res |-> "line", line |-> SubSeq(inp, 1, p), rest |-> From(inp, p + 1)]

\* the result of one call of next(): what it returns, what is left of the
\* stream, the buffer, and how many times it called read_line
Returned(out, rd, n) ==
    [out |-> out, rest |-> rd.rest, buffer |-> rd.line, lastRead |-> rd.res, reads |-> n]

\* a faulty variant: a loop that returns None at a line that matches no shape
NextGivingUp(inp, n) ==
    LET rd == ReadLine(inp) IN
    IF rd.res # "line" THEN Returned([kind |-> "none"], rd, n + 1)
    ELSE Returned(IF DecodeLine(rd.line).kind = "skip" THEN [kind |-> "none"]
                  ELSE DecodeLine(rd.line), rd, n + 1)

RECURSIVE NextLoop(_, _)
\* the loop of Iter::next (weechat3.rs 51-107), having read n lines so far:
\* Ok(0) | Err(_) => return None; a line that matches no shape is read over
NextLoop(inp, n) ==
    LET rd == ReadLine(inp) IN
    IF rd.res # "line" THEN Returned([kind |-> "none"], rd, n + 1)
    ELSE LET d == DecodeLine(rd.line) IN
         IF d.kind = "skip" THEN NextLoop(rd.rest, n + 1)
         ELSE Returned(d, rd, n + 1)

\* Encode for Weechat3::encode: the bytes written for one event
\* (a Nick matches `_ => ()`: nothing is written)
Encode(e) ==
    IF e.ty = "Msg"
        THEN date(e.time) \o <<"\t">> \o e.from \o  <<"\t">> \o e.content \o <<"\n">>
    ELSE IF e.ty = "Action"
        THEN date(e.time) \o <<"\t", " ", "*", "\t">> \o e.from \o <<" ">> \o e.content \o <<"\n">>
    ELSE IF e.ty = "Join"
        THEN date(e.time) \o <<"\t", "-", "-", ">", "\t">> \o e.nick \o <<" ", "(">> \o e.mask
             \o <<")", " ", "h", "a", "s", " ", "j", "o", "i", "n", "e", "d", " ">> \o e.channel \o <<"\n">>
    ELSE IF e.ty = "Part"
        THEN date(e.time) \o <<"\t", "<", "-", "-", "\t">> \o e.nick \o <<" ", "(">> \o e.mask
             \o <<")", " ", "h", "a", "s", " ", "l", "e", "f", "t", " ">> \o e.channel
             \o (IF Len(e.reason) > 0 THEN <<" ", "(">> \o e.reason \o <<")">> ELSE <<>>)
             \o <<"\n">>
    ELSE IF e.ty = "Quit"
        THEN date(e.time) \o <<"\t", "<", "-", "-", "\t">> \o e.nick \o <<" ", "(">> \o e.mask \o <<")", " ", "h", "a", "s", " ", "q", "u", "i", "t">>
             \o (IF Len(e.reason) > 0 THEN <<" ", "(">> \o e.reason \o <<")">> ELSE <<>>)
             \o <<"\n">>
    ELSE IF e.ty = "Disconnect"
        THEN date(e.time) \o <<"\t", "-", "-", "\t", "i", "r", "c", ":", " ", "d", "i", "s", "c", "o", "n", "n", "e", "c", "t", "e", "d", " ", "f", "r", "o", "m", " ", "s", "e", "r", "v", "e", "r", "\n">>
    ELSE IF e.ty = "Notice"
        THEN date(e.time) \o <<"\t", "-", "-", "\t", "N", "o", "t", "i", "c", "e", "(">> \o e.nick \o <<")", ":", " ">> \o e.content \o <<"\n">>
    ELSE <<>>

-----------------------------------------------------------------------------
(* Specification of the weechat3 codec: an event is encoded into the stream, *)
(* or the stream holds some text; then the decode sequence is pulled         *)

\* lines of text (without their terminator) an input stream is made of
LinePool ==
    { <<"2", "0", "2", "0", "-", "0", "1", "-", "0", "1", " ", "1", "0", ":", "0", "0", ":", "0", "5", "\t", "a", "l", "i", "c", "e", "\t", "h", "e", "l", "l", "o", " ", " ", "w", "o", "r", "l", "d">>,
      <<"2", "0", "2", "0", "-", "0", "1", "-", "0", "1", " ", "1", "0", ":", "0", "0", ":", "0", "5", " ", "a", "l", "i", "c", "e", " ", "h", "i", "\t", "y", "o", "u", " ">>,
      <<"2", "0", "2", "0", "-", "0", "1", "-", "0", "1", " ", "1", "0", ":", "0", "0", ":", "0", "5", "\t", " ", "*", "\t", "b", "o", "b", " ", "w", "a", "v", "e", "s", " ", " ", "b", "a", "c", "k">>,
      <<"2", "0", "2", "0", "-", "0", "1", "-", "0", "1", " ", "1", "0", ":", "0", "0", ":", "0", "5", "\t", "-", "-", "\t", "N", "o", "t", "i", "c", "e", "(", "b", "o", "b", ")", ":", " ", "h", "i", " ", "t", "h", "e", "r", "e">>,
      <<"2", "0", "2", "0", "-", "0", "1", "-", "0", "1", " ", "1", "0", ":", "0", "0", ":", "0", "5", "\t", "<", "-", "-", "\t", "b", "o", "b", " ", "(", "~", "b", "@", "h", ")", " ", "h", "a", "s", " ", "q", "u", "i", "t", " ", "(", "b", "y", "e", " ", "n", "o", "w", ")">>,
      <<"2", "0", "2", "0", "-", "0", "1", "-", "0", "1", " ", "1", "0", ":", "0", "0", ":", "0", "5", "\t", "-", "-", "\t", "b", "o", "b", " ", "i", "s", " ", "n", "o", "w", " ", "k", "n", "o", "w", "n", " ", "a", "s", " ", "a", "l">>,
      <<"2", "0", "2", "0", "-", "0", "1", "-", "0", "1", " ", "1", "0", ":", "0", "0", ":", "0", "5", " ", "-", "-", " ", "N", "o", "t", "i", "c", "e", "(", " ", "h", "i">>,
      <<"2", "0", "2", "0", "-", "0", "1", "-", "0", "1", " ", "1", "0", ":", "0", "0", ":", "0", "5", " ", "-", "-", " ", "N", "o", "t", "i", "c", "e", "(", "x", " ", "h", "i">>,
      <<"2", "0", "2", "0", "-", "1", "3", "-", "0", "1", " ", "1", "0", ":", "0", "0", ":", "0", "5", " ", "a", "l", "i", "c", "e", " ", "h", "i">>,
      <<"x", "x", " ", "y", "y", " ", "a", "l", "i", "c", "e", " ", "h", "i">>,
      <<"2", "0", "2", "0", "-", "0", "1", "-", "0", "1", " ", "1", "0", ":", "0", "0", ":", "0", "5">>,
      <<>> }

\* the streams: up to MaxLines lines, the last one with or without its
\* newline, and possibly one position (at a line boundary) where reading fails
Stream(ls, lastNl, failAt) ==
    Concat([i \in 1..Len(ls) |->
               (IF failAt = i THEN <<EIO>> ELSE <<>>)
               \o ls[i]
               \o (IF i < Len(ls) \/ lastNl THEN <<nl>> ELSE <<>>)])
    \o (IF failAt = Len(ls) + 1 THEN <<EIO>> ELSE <<>>)

Streams ==
    { Stream(ls, lastNl, failAt) :
          ls \in UNION {[1..n -> LinePool] : n \in 0..MaxLines},
          lastNl \in BOOLEAN,
          failAt \in 0..MaxLines + 1 }

\* strings for the single-token fields of an event (from, nick, mask, channel)
NamePool == { <<>>, <<"a", "l">>, <<"-", "-">>, <<"-", "-", ">">>, <<"<", "-", "-">>, <<"*">>, <<"a", " ", "b">>, <<"a", "\t", "b">> }

\* strings for the free-text fields of an event (content, reason)
TextPool ==
    { <<>>, <<"h", "i">>, <<"a", " ", " ", "b", "\t", "c", " ">>, <<" ", "h", "i">>, <<"*", " ", "a", "l", " ", "h", "i">>, <<"*">>, <<"(", "x", ")">>,
      <<"N", "o", "t", "i", "c", "e", "(", "a", "l", ")", ":", " ", "h", "i">>, <<"N", "o", "t", "i", "c", "e", "(", " ", "h", "i">>, <<"i", "r", "c", ":", " ", "d", "i", "s", "c", "o", "n", "n", "e", "c", "t", "e", "d", " ", "f", "r", "o", "m", " ", "s", "e", "r", "v", "e", "r">>,
      <<"a", "l", " ", "i", "s", " ", "n", "o", "w", " ", "k", "n", "o", "w", "n", " ", "a", "s", " ", "b", "o">>, <<"a", "l", " ", "(", "m", ")", " ", "h", "a", "s", " ", "j", "o", "i", "n", "e", "d", " ", "#", "c">>, <<"a", "l", " ", "(", "m", ")", " ", "h", "a", "s", " ", "q", "u", "i", "t", " ", "(", "r", ")">>,
      <<"a", "l", " ", "(", "m", ")", " ", "h", "a", "s", " ", "l", "e", "f", "t", " ", "#", "c">>, <<"h", "i", "\n", "a", "l">>, <<"h", "i", "\n">> }

\* event times: the epoch, a leap day's last second, the spec's scenario
CodecTimes == {0, 951868799, 1577872805}

\* the events that are encoded
CodecEvents ==
    {Msg(f, c, t) : f \in NamePool, c \in TextPool, t \in CodecTimes}
    \cup {Action(f, c, 1577872805) : f \in NamePool, c \in TextPool}
    \cup {Notice(f, c, 1577872805) : f \in NamePool, c \in TextPool}
    \cup {Join(n, c, m, 951868799) :
              n \in {<<>>, <<"a", "l">>, <<"a", " ", "b">>}, c \in {<<>>, <<"#", "c">>, <<"#", " ", "c">>},
              m \in {<<>>, <<"~", "a", "@", "h">>, <<"a", " ", "h">>}}
    \cup {Part(n, c, m, r, 0) :
              n \in {<<"a", "l">>, <<"a", " ", "b">>}, c \in {<<>>, <<"#", "c">>}, m \in {<<>>, <<"~", "a", "@", "h">>},
              r \in TextPool}
    \cup {Quit(n, m, r, 1577872805) :
              n \in {<<>>, <<"a", "l">>}, m \in {<<>>, <<"~", "a", "@", "h">>, <<"a", " ", "h">>}, r \in TextPool}
    \cup {Nick(o, n, t) : o \in {<<"a", "l">>}, n \in {<<>>, <<"b", "o">>}, t \in CodecTimes}
    \cup {Disconnect(t) : t \in CodecTimes}

InitCodec ==
    /\ MainOff /\ CmdOff
    /\ \/ pending \in {<<e>> : e \in CodecEvents} /\ input = <<>>
       \/ pending = <<>> /\ input \in Streams
    /\ original = <<>>
    /\ buffer = <<>>
    /\ reads = 0
    /\ callInput = <<>>
    /\ lastRead = "none"
    /\ yielded = <<>>
    /\ status = "running"

\* encoder.encode(&mut output, &e): the bytes of e are written to the stream
\* (the writes are to memory and do not fail)
EncodeEvent ==
    /\ status = "running"
    /\ pending # <<>>
    /\ input' = input \o Encode(Head(pending))
    /\ original' = Append(original, Head(pending))
    /\ pending' = Tail(pending)
    /\ UNCHANGED <<buffer, reads, callInput, lastRead, yielded, status, mainVars, cmdVars>>

\* one call of Iter::next
IterNext ==
    /\ status = "running"
    /\ pending = <<>>
    /\ LET r == NextLoop(input, 0) IN
       /\ callInput' = input
       /\ input' = r.rest
       /\ buffer' = r.buffer
       /\ reads' = r.reads
       /\ lastRead' = r.lastRead
       /\ yielded' = IF r.out.kind = "event" THEN Append(yielded, Ok(r.out.ev)) ELSE yielded
       /\ status' = IF r.out.kind = "event" THEN "running"
                    ELSE IF r.out.kind = "none" THEN "ended"
                    ELSE "panicked"
    /\ UNCHANGED <<pending, original, mainVars, cmdVars>>

NextCodec == EncodeEvent \/ IterNext

SpecCodec == InitCodec /\ [][NextCodec]_vars

-----------------------------------------------------------------------------
(* Claims about the codec *)

\* s holds no whitespace character, so it is written and read back as one token
OneToken(s) == \A i \in 1..Len(s) : ~IsWhitespace(s[i])

\* s holds no line terminator, so it is written within one line
OneLine(s) == \A i \in 1..Len(s) : s[i] # nl

\* e is written as one line whose tokens are its fields: the single-token
\* fields hold no whitespace, the free-text fields no newline, and a Msg
\* does not read as a line of a shape of higher priority (its sender is not
\* one of the markers -->, <--, --, and it is not an empty sender followed
\* by a content that begins with "*" and a whitespace)
Representable(e) ==
    IF e.ty \in {"Msg", "Action"}
        THEN /\ OneToken(e.from) /\ OneLine(e.content)
             /\ e.ty = "Msg" =>
                   /\ e.from \notin {<<"-", "-", ">">>, <<"<", "-", "-">>, <<"-", "-">>}
                   /\ ~(e.from = <<>> /\ Len(e.content) >= 2
                        /\ e.content[1] = "*" /\ IsWhitespace(e.content[2]))
    ELSE IF e.ty = "Notice" THEN OneToken(e.nick) /\ OneLine(e.content)
    ELSE IF e.ty = "Join" THEN OneToken(e.nick) /\ OneToken(e.mask) /\ OneToken(e.channel)
    ELSE IF e.ty = "Part"
        THEN OneToken(e.nick) /\ OneToken(e.mask) /\ OneToken(e.channel) /\ OneLine(e.reason)
    ELSE IF e.ty = "Quit" THEN OneToken(e.nick) /\ OneToken(e.mask) /\ OneLine(e.reason)
    ELSE TRUE

\* the last element of a non-empty sequence
Last(s) == s[Len(s)]

\* the tokens a line is matched by: all but the last
LineTokens(line) == LET tk == Tokenize(line).tokens IN SubSeq(tk, 1, Len(tk) - 1)

\* the line read last matches a shape
BufferHasShape == lastRead = "line" /\ Shape(LineTokens(buffer)) # ""

\* the line read last begins with a well-formed date and time
BufferWellTimed ==
    /\ lastRead = "line"
    /\ Len(LineTokens(buffer)) >= 2
    /\ WellFormedTimestamp(LineTokens(buffer)[1], LineTokens(buffer)[2])

\* C3, as stated: every event but a Nick is decoded from its own encoding as
\* exactly one event equal to it (once the decode sequence has ended, that
\* event is all it has yielded), and a Nick is encoded as nothing.
C3_AsStated ==
    original # <<>> =>
        LET e == original[1] IN
        /\ e.ty = "Nick" => (input = <<>> /\ callInput = <<>> /\ yielded = <<>>)
        /\ (e.ty # "Nick" /\ status = "ended") => yielded = <<Ok(e)>>

\* C3, amended: every event but a Nick whose single-token fields (from, nick,
\* mask, channel) hold no whitespace, whose free-text fields (content, reason)
\* hold no newline and which, if a Msg, has a sender that is none of -->, <--,
\* -- and is not empty before a content beginning with "*" and whitespace, is
\* decoded from its own encoding as exactly one event equal to it, empty
\* fields included; a Nick is encoded as nothing, and decoding never panics
\* on such an event.
C3_RoundTrip ==
    original # <<>> =>
        LET e == original[1] IN
        /\ Representable(e) => status # "panicked"
        /\ e.ty = "Nick" => (input = <<>> /\ callInput = <<>> /\ yielded = <<>>)
        /\ (e.ty # "Nick" /\ Representable(e) /\ status = "ended") => yielded = <<Ok(e)>>

\* C3's case: a Part with an empty channel and a reason of several tokens
\* has been encoded, decoded back as itself, and the sequence has ended
C3_Witness ==
    /\ status = "ended"
    /\ original # <<>>
    /\ original[1].ty = "Part"
    /\ original[1].channel = <<>>
    /\ Len(original[1].reason) > 5
    /\ yielded = <<Ok(original[1])>>
    /\ reads = 1

\* C4, as stated: a line that matches a shape and whose date and time do
\* not parse is yielded as a decode error, and decoding goes on.
C4_AsStated ==
    (BufferHasShape /\ ~BufferWellTimed) =>
        /\ status = "running"
        /\ yielded # <<>>
        /\ ~Last(yielded).ok

\* C5, as stated: a read error of the stream surfaces as an error element;
\* the sequence does not just end as at the end of input.
C5_AsStated ==
    lastRead = "err" => (yielded # <<>> /\ ~Last(yielded).ok)

\* the lines of a stream that a call of next() starting there reads over:
\* its leading lines that match no shape, up to the first position where
\* reading fails
ReadOver(inp) ==
    LET IsStop(i) == inp[i] \in {nl, EIO}
        at        == SelectSeq([i \in 1..Len(inp) |-> i], IsStop)
        item(k)   == SubSeq(inp, IF k = 1 THEN 1 ELSE at[k - 1] + 1,
                                 IF k = Len(at) + 1 THEN Len(inp) ELSE at[k])
        count     == IF at # <<>> /\ Last(at) = Len(inp) THEN Len(at) ELSE Len(at) + 1
        over(k)   == /\ (k <= Len(at) => inp[at[k]] = nl)
                     /\ item(k) # <<>>
                     /\ Shape(LineTokens(item(k))) = ""
    IN  Cardinality({k \in 1..count : \A j \in 1..k : over(j)})

\* C8, as stated: every call of next() reads the stream exactly once.
C8_AsStated == lastRead # "none" => reads = 1

\* C8, amended: every call of next() reads the stream once for every line it
\* reads over because the line matches no shape, and exactly once more (the
\* read that gives the line it decodes, the end of input or a read error).
C8_Reads == lastRead # "none" => reads = 1 + ReadOver(callInput)

\* C8's case: a call that read over a line and then yielded an event
C8_Witness ==
    /\ reads = 2
    /\ lastRead = "line"
    /\ status = "running"
    /\ yielded # <<>>

\* the text of a line from its (k+1)-th token to its end, without the newline
FieldText(line, k) ==
    LET body        == IF line # <<>> /\ Last(line) = nl
                       THEN SubSeq(line, 1, Len(line) - 1) ELSE line
        IsSplit(i)  == IsWhitespace(body[i])
        at          == SelectSeq([i \in 1..Len(body) |-> i], IsSplit)
    IN  IF Len(at) < k THEN <<>> ELSE SubSeq(body, at[k] + 1, Len(body))

\* C9, as stated: the multi-token field of the event decoded from a line is
\* the text of the line from the field's first token to the end of the line,
\* whether the line ends with a newline or with the input.
C9_AsStated ==
    (lastRead = "line" /\ status = "running" /\ yielded # <<>>) =>
        LET e == Last(yielded).ev IN
        /\ e.ty = "Msg" => e.content = FieldText(buffer, 3)
        /\ e.ty = "Notice" => e.content = FieldText(buffer, 4)
        /\ e.ty = "Action" => e.content = FieldText(buffer, 5)
        /\ e.ty = "Quit" => e.reason = mask(FieldText(buffer, 7))
        /\ e.ty = "Part" => e.reason = mask(FieldText(buffer, 8))

\* C9 holds of the lines that end with a newline
C9_NewlineTerminated == (buffer # <<>> /\ Last(buffer) = nl) => C9_AsStated

\* C10, as stated: a line with a well-formed timestamp either gives the
\* event of the first shape it matches or is read over; it never ends
\* decoding.
C10_AsStated ==
    BufferWellTimed =>
        /\ status = "running"
        /\ yielded # <<>>
        /\ Last(yielded).ok
        /\ Last(yielded).ev.ty = Shape(LineTokens(buffer))

-----------------------------------------------------------------------------
(* main(): start-up and command dispatch, main.rs 143-320 *)

\* the format names of format::decoder and format::encoder
Registered == {"energymech", "weechat3", "binary"}

\* format::decoder(name) and format::encoder(name) are Some(..)
decoder(format) == format \in Registered
encoder(format) == format \in Registered

\* the commands that look an encoder up (freq writes its own report, seen
\* uses the weechat3 encoder directly)
NeedsEncoder == {"parse", "convert", "sort", "dedup"}

\* the command lines: a command, the number of -i files, -o given or not,
\* --inf and --outf ("none": not given, "bogus": not a registered name)
ArgsSet ==
    [cmd : {"parse", "convert", "freq", "seen", "sort", "dedup"},
     files : 0..MaxFiles,
     out : BOOLEAN,
     inf : {"none", "weechat3", "bogus"},
     outf : {"none", "weechat3", "bogus"},
     infer_date : BOOLEAN]

DiedTooMany  == "Too many input files, can't infer date"
DiedNoInf    == "You didn't specify the input format"
DiedNoOutf   == "You didn't specify the output format"
DiedUnknown  == "The format is unknown to me"
DiedIo       == "Error: io"

InitMain ==
    /\ args \in ArgsSet
    /\ mpc = "input"
    /\ opened = 0
    /\ created = FALSE
    /\ exitMsg = ""
    /\ CmdOff /\ CodecOff

\* main.rs 159-180: with -i, the files are opened (after the --infer-date
\* check); without, the input is stdin
OpenInput ==
    /\ mpc = "input"
    /\ IF args.files > 0 /\ args.infer_date /\ args.files > 1
       THEN mpc' = "exit" /\ exitMsg' = DiedTooMany /\ UNCHANGED opened
       ELSE mpc' = "output" /\ opened' = args.files /\ UNCHANGED exitMsg
    /\ UNCHANGED <<args, created, cmdVars, codecVars>>

\* main.rs 182-189: with -o, File::create creates or truncates the file, or
\* fails; without, the output is stdout
CreateOutput ==
    /\ mpc = "output"
    /\ IF args.out
       THEN \E ok \in BOOLEAN :
                IF ok THEN mpc' = "decoder" /\ created' = TRUE /\ UNCHANGED exitMsg
                ELSE mpc' = "exit" /\ exitMsg' = DiedIo /\ UNCHANGED created
       ELSE mpc' = "decoder" /\ UNCHANGED <<created, exitMsg>>
    /\ UNCHANGED <<args, opened, cmdVars, codecVars>>

\* force_decoder(args.flag_inf), the first statement of every command
force_decoder ==
    /\ mpc = "decoder"
    /\ IF args.inf = "none" THEN mpc' = "exit" /\ exitMsg' = DiedNoInf
       ELSE IF ~decoder(args.inf) THEN mpc' = "exit" /\ exitMsg' = DiedUnknown
       ELSE /\ mpc' = IF args.cmd \in NeedsEncoder THEN "encoder" ELSE "run"
            /\ UNCHANGED exitMsg
    /\ UNCHANGED <<args, opened, created, cmdVars, codecVars>>

\* force_encoder(args.flag_outf), in parse, convert, sort and dedup
force_encoder ==
    /\ mpc = "encoder"
    /\ IF args.outf = "none" THEN mpc' = "exit" /\ exitMsg' = DiedNoOutf
       ELSE IF ~encoder(args.outf) THEN mpc' = "exit" /\ exitMsg' = DiedUnknown
       ELSE mpc' = "run" /\ UNCHANGED exitMsg
    /\ UNCHANGED <<args, opened, created, cmdVars, codecVars>>

\* the command's loop over the decode sequence runs to its end
RunCommand ==
    /\ mpc = "run"
    /\ mpc' = "done"
    /\ UNCHANGED <<args, opened, created, exitMsg, cmdVars, codecVars>>

NextMain == OpenInput \/ CreateOutput \/ force_decoder \/ force_encoder \/ RunCommand

SpecMain == InitMain /\ [][NextMain]_vars

\* C6, as stated: with an input or output format name that is not
\* registered, the run ends with the unknown-format error, and no input file
\* has been opened and no output file created when it does.
C6_AsStated ==
    /\ exitMsg = DiedUnknown => (opened = 0 /\ ~created)
    /\ (args.inf = "bogus" \/ args.outf = "bogus") => mpc # "done"

=============================================================================
